---- MODULE Spec2Model ----
(***************************************************************************)
(* Model of httpproxy/views.py (class HttpProxy, a Django class-based      *)
(* view): the per-request pipeline dispatch -> normalize_request ->        *)
(* play | super().dispatch (get/post -> get_response) -> record ->         *)
(* rewrite_response -> return.                                             *)
(*                                                                         *)
(* Python semantics are kept statement by statement, exceptions included.  *)
(* A call yields a result record [raised, value, events, store]: raised    *)
(* is the name of the exception that left the call ("none" if it           *)
(* returned), events is what the call did, in order, store the Recorder's  *)
(* storage after it.                                                       *)
(*                                                                         *)
(* How the file is read:                                                   *)
(*  - lines 152 and 165 do not tokenize as written (an unterminated        *)
(*    string, an unclosed parenthesis).  They are read closed,             *)
(*    method='POST') and logger.info(...); read literally the module       *)
(*    does not import and no request is served at all.                     *)
(*  - line 139 calls urllib.parse, which is a module of six.moves.urllib:  *)
(*    the call raises TypeError.                                           *)
(*  - line 172 calls create_request without its required parameter         *)
(*    `method`: the call raises TypeError.                                 *)
(*  - line 174 reads the undefined name `s`: NameError.                    *)
(*  - line 181 iterates the dict `headers` and unpacks each key (a         *)
(*    string) into two names: ValueError unless the dict is empty.         *)
(*  - str is the Python 2 byte string (the str.decode idiom of lines       *)
(*    148-149 and 170-171 exists only there).                              *)
(*  - the replacement of line 118 is a template: re reads the backslash    *)
(*    escapes of the proxy_root pasted into it.                            *)
(*  - request.GET is a QueryDict: urlencode() writes the parsed            *)
(*    parameters again, grouped by key and re-encoded.                     *)
(*  - session.send is given no timeout.                                    *)
(* Strings are sequences of tokens; a token is a short string.             *)
(*                                                                         *)
(* Spec is the pipeline, one request at a time; SpecConc two requests      *)
(* side by side; SpecFn the pure functions applied to bounded inputs.      *)
(***************************************************************************)
EXTENDS Naturals, Sequences, FiniteSets, TLC

VARIABLES pc, view, request, upstream, response, outcome, trace, store, handled

vars == <<pc, view, request, upstream, response, outcome, trace, store, handled>>

\* ------------------------------------------------------------ bounds
\* Requests received in one behaviour.
MaxHandled == 3

\* Request slots.  Each request gets its own HttpProxy instance (View.as_view
\* builds one per call), so a slot holds one instance and the request it serves;
\* a slot is taken again once its request has ended.
Reqs == {1}

\* ------------------------------------------------------------ values
None == "None"
NoExc == "none"

\* The request methods exercised.  PUT stands for every method of
\* View.http_method_names that HttpProxy defines no handler for.
Methods == {"GET", "POST", "PUT", "OPTIONS"}

\* The values of HttpProxy.mode: the default None, the two documented modes,
\* and a string that is neither.
Modes == {None, "record", "play", "replay"}

\* HttpProxy.base_url as configured, with what urlparse would find in it.
base_url == [text |-> <<"http://origin.test">>, hostname |-> "origin.test", port |-> "None"]

\* A base_url with no host in it.
base_url_no_host == [text |-> <<"http://">>, hostname |-> "None", port |-> "None"]

\* The text the URL pattern matches before the captured group `url`.
Mounts == {<<"/", "p", "/">>, <<"/", "p">>}

\* The captured group `url` of the URL pattern.
TargetUrls == {<<"a">>, <<"/", "a">>}

\* The query strings received, as lists of (key, value) pairs.
Queries == {<< >>, << <<"k", "v">> >>}

\* What the upstream does with a request sent to it: the transport fails
\* (ok = FALSE), a reply arrives, with or without a content-type header, or
\* nothing ever comes back (silent).
UpstreamReplies ==
    {[ok |-> FALSE, silent |-> FALSE, status |-> 0, headers |-> {}, content |-> << >>],
     [ok |-> TRUE, silent |-> FALSE, status |-> 200,
      headers |-> {<<"content-type", "text/html">>, <<"etag", "e1">>},
      content |-> <<"src=", "\"", "/", "a", "\"">>],
     [ok |-> TRUE, silent |-> FALSE, status |-> 404, headers |-> {<<"etag", "e1">>},
      content |-> << >>],
     [ok |-> FALSE, silent |-> TRUE, status |-> 0, headers |-> {}, content |-> << >>]}

\* ------------------------------------------------------------ results of calls
Ev(op, req) == [op |-> op, path |-> req.path]

Ok(v, evs, st) == [raised |-> NoExc, value |-> v, events |-> evs, store |-> st]

Raise(exc, evs, st) == [raised |-> exc, value |-> None, events |-> evs, store |-> st]

\* A call that never returns: the caller stays in it.
Blocked == "blocked"

Block(evs, st) == [raised |-> Blocked, value |-> None, events |-> evs, store |-> st]

\* The call did not return a value: it raised, or it never returned.
Raised(res) == res.raised # NoExc

\* ------------------------------------------------------------ strings
startswith(s, c) == Len(s) > 0 /\ s[1] = c

\* Whether sep occurs in s at index i.
OccursAt(s, sep, i) ==
    /\ i >= 1
    /\ i + Len(sep) - 1 <= Len(s)
    /\ \A k \in 1..Len(sep) : s[i + k - 1] = sep[k]

\* s.rsplit(sep, 1)[0]: what precedes the rightmost occurrence of sep in s,
\* the whole of s when sep does not occur in it.
rsplit1_head(s, sep) ==
    LET occ == {i \in 1..Len(s) : OccursAt(s, sep, i)}
    IN  IF occ = {} THEN s
        ELSE LET last == CHOOSE i \in occ : \A j \in occ : j <= i
             IN  SubSeq(s, 1, last - 1)

\* All the sequences over S of length n at most.
SeqsUpTo(S, n) == UNION {[1..k -> S] : k \in 0..n}

\* urllib's unquote_plus and quote_plus on one token of a query string: an
\* escaped space and a plus both decode to a space, a space encodes to a plus.
unquote_plus(tok) == IF tok \in {"%20", "+"} THEN " " ELSE tok

quote_plus(tok) == IF tok = " " THEN "+" ELSE tok

\* The values a query string gives for key k, decoded, in the order received.
RECURSIVE getlist(_, _)
getlist(query_string, k) ==
    IF query_string = << >> THEN << >>
    ELSE (IF query_string[1][1] = k THEN <<unquote_plus(query_string[1][2])>> ELSE << >>)
         \o getlist(Tail(query_string), k)

\* request.GET, the QueryDict of a query string received as a list of
\* (key, value) pairs: a dict from each key to the list of its values, which
\* iterates over its keys in the order keys (the order of a Python 2 dict is
\* not the order of insertion).
QueryDict(query_string, keys) ==
    [i \in 1..Len(keys) |-> <<keys[i], getlist(query_string, keys[i])>>]

\* The orders a QueryDict of this query string can iterate its keys in.
KeyOrders(query_string) ==
    LET ks == {query_string[i][1] : i \in 1..Len(query_string)}
    IN  {o \in [1..Cardinality(ks) -> ks] : \A k \in ks : \E i \in DOMAIN o : o[i] = k}

\* key=value for every value of one key.
RECURSIVE urlencode_key(_, _)
urlencode_key(k, values) ==
    IF values = << >> THEN << >>
    ELSE << <<k, "=", quote_plus(values[1])>> >> \o urlencode_key(k, Tail(values))

\* '&'.join(output)
RECURSIVE join_amp(_)
join_amp(output) ==
    IF output = << >> THEN << >>
    ELSE output[1] \o (IF Len(output) > 1 THEN <<"&">> ELSE << >>) \o join_amp(Tail(output))

\* The list QueryDict.urlencode() joins: for every key of the dict, in the
\* dict's order, key=value for each of its values, re-encoded.
RECURSIVE urlencode_output(_)
urlencode_output(q) ==
    IF q = << >> THEN << >>
    ELSE urlencode_key(q[1][1], q[1][2]) \o urlencode_output(Tail(q))

\* QueryDict.urlencode()
urlencode(q) == join_amp(urlencode_output(q))

\* ------------------------------------------------------------ the rewriter
RewriteAttrs == {"src=", "action=", "href="}

RewriteQuotes == {"\"", "'"}

\* The pattern without its lookahead: a "/" whatever follows it.
REWRITE_REGEX_no_lookahead(content, i) ==
    /\ i + 2 <= Len(content)
    /\ content[i] \in RewriteAttrs
    /\ content[i + 1] \in RewriteQuotes
    /\ content[i + 2] = "/"

\* REWRITE_REGEX matches at index i of content: an attribute, a quote, a "/"
\* that no other "/" follows.
REWRITE_REGEX(content, i) ==
    /\ i + 2 <= Len(content)
    /\ content[i] \in RewriteAttrs
    /\ content[i + 1] \in RewriteQuotes
    /\ content[i + 2] = "/"
    /\ (i + 3 <= Len(content) => content[i + 3] # "/")

\* The token of a replacement template that stands for group 1 of the match.
Backref1 == "\\1"

\* r'\1{}/'.format(proxy_root): the replacement template.  proxy_root is
\* pasted into it as it is.
repl_template(root) == <<Backref1>> \o root \o <<"/">>

\* What re puts in place of a match whose group 1 is g: the template, every
\* \1 in it replaced by g.
RECURSIVE expand_template(_, _)
expand_template(template, g) ==
    IF template = << >> THEN << >>
    ELSE (IF template[1] = Backref1 THEN g ELSE <<template[1]>>)
         \o expand_template(Tail(template), g)

\* REWRITE_REGEX.sub(template, content) from index i on: every
\* non-overlapping match, left to right, becomes the expanded template.
RECURSIVE regex_sub(_, _, _)
regex_sub(content, template, i) ==
    IF i > Len(content) THEN << >>
    ELSE IF REWRITE_REGEX(content, i)
         THEN expand_template(template, <<content[i], content[i + 1]>>)
              \o regex_sub(content, template, i + 3)
         ELSE <<content[i]>> \o regex_sub(content, template, i + 1)

\* The prefix taken with split instead of rsplit: what precedes the leftmost
\* occurrence of request.path.
proxy_root_leftmost(self, req) ==
    LET s == self.original_request_path
        occ == {i \in 1..Len(s) : OccursAt(s, req.path, i)}
    IN  IF occ = {} THEN s
        ELSE SubSeq(s, 1, (CHOOSE i \in occ : \A j \in occ : i <= j) - 1)

\* line 116
proxy_root(self, req) == rsplit1_head(self.original_request_path, req.path)

rewrite_response(self, req, resp, st) ==
    Ok([resp EXCEPT !.content =
            regex_sub(resp.content, repl_template(proxy_root(self, req)), 1)],
       <<[op |-> "rewrite", path |-> req.path, root |-> proxy_root(self, req)]>>, st)

\* ------------------------------------------------------------ the normalizer
\* normalize_request that fixes self.url and leaves the request as routed.
normalize_request_keeps_path(self, req) ==
    LET url == IF ~startswith(self.url, "/") THEN <<"/">> \o self.url ELSE self.url
    IN  [self |-> [self EXCEPT !.url = url], request |-> req]

\* normalize_request that sets request.path and neither path_info nor
\* META['PATH_INFO'].
normalize_request_path_only(self, req) ==
    LET url == IF ~startswith(self.url, "/") THEN <<"/">> \o self.url ELSE self.url
    IN  [self |-> [self EXCEPT !.url = url], request |-> [req EXCEPT !.path = url]]

\* normalize_request with the startswith test lost: a slash goes in front of
\* every url.
normalize_request_always_prepends(self, req) ==
    LET url == <<"/">> \o self.url
    IN  [self |-> [self EXCEPT !.url = url],
         request |-> [req EXCEPT !.path = url, !.path_info = url, !.META_PATH_INFO = url]]

normalize_request(self, req) ==
    LET url == IF ~startswith(self.url, "/") THEN <<"/">> \o self.url ELSE self.url
    IN  [self |-> [self EXCEPT !.url = url],
         request |-> [req EXCEPT !.path = url, !.path_info = url, !.META_PATH_INFO = url]]

\* ------------------------------------------------------------ the Recorder
\* The key a pair is stored under: method, normalized path, query.
RecorderKey(req) == <<req.method, req.path, req.GET>>

ProxyRecorder_playback(recorder, req, st) ==
    IF \E p \in st : p.key = RecorderKey(req)
    THEN Ok((CHOOSE p \in st : p.key = RecorderKey(req)).response,
            <<Ev("playback", req)>>, st)
    ELSE Raise("RequestNotRecorded", <<Ev("playback", req)>>, st)

ProxyRecorder_record(recorder, req, resp, st) ==
    Ok(None, <<Ev("recorder_write", req)>>,
       {p \in st : p.key # RecorderKey(req)}
           \cup {[key |-> RecorderKey(req), response |-> resp]})

\* What the names of django.utils.six.moves.urllib are bound to.
six_moves_urllib == [parse |-> "module", request |-> "module", error |-> "module"]

\* Calling an object: only functions and classes can be called.
Callable(kind) == kind \in {"function", "class"}

get_recorder(self, req, st) ==
    IF ~Callable(six_moves_urllib.parse)
    THEN Raise("TypeError", <<Ev("get_recorder", req)>>, st)
    ELSE Ok([domain |-> self.base_url.hostname,
             port |-> IF self.base_url.port = "None" THEN "80" ELSE self.base_url.port],
            <<Ev("get_recorder", req)>>, st)

play(self, req, st) ==
    LET rec == get_recorder(self, req, st)
    IN  IF Raised(rec) THEN rec
        ELSE LET got == ProxyRecorder_playback(rec.value, req, st)
             IN  [got EXCEPT !.events = rec.events \o @]

\* record with the Recorder's failure swallowed.
record_best_effort(self, req, resp, st) ==
    LET rec == get_recorder(self, req, st)
    IN  IF Raised(rec) THEN Ok(None, rec.events, st)
        ELSE LET put == ProxyRecorder_record(rec.value, req, resp, st)
             IN  [put EXCEPT !.events = rec.events \o @]

\* self.request is the request object dispatch normalized: as_view stores the
\* object it passes to dispatch, and normalize_request changes it in place.
record(self, req, resp, st) ==
    LET rec == get_recorder(self, req, st)
    IN  IF Raised(rec) THEN rec
        ELSE LET put == ProxyRecorder_record(rec.value, req, resp, st)
             IN  [put EXCEPT !.events = rec.events \o @]

\* ------------------------------------------------------------ the dispatcher
\* get_full_url that appends the "?" whether or not there are parameters.
get_full_url_always_query(self, req, url) ==
    self.base_url.text \o url \o <<"?">> \o urlencode(req.GET)

get_full_url(self, req, url) ==
    LET param_str == urlencode(req.GET)
        request_url == self.base_url.text \o url
    IN  request_url \o (IF param_str # << >> THEN <<"?">> \o param_str ELSE << >>)

\* requests.Request(method, url, body, headers), as create_request builds it.
create_request(url, method, body, headers) ==
    [method |-> method, url |-> url, body |-> body, headers |-> headers]

\* What a parameter holds that the call gave no argument for.
Unbound == "unbound"

\* create_request with a default for `method`.
create_request_method_optional == {"url"}

\* The parameters of create_request that have no default.
create_request_required == {"url", "method"}

\* The parameters the call of line 172 binds: request_url positionally,
\* body and headers by keyword.
create_request_call_args == {"url", "body", "headers"}

\* The names line 174 can read: the locals of get_response bound by then and
\* the names the module binds.
get_response_names ==
    {"self", "method", "body", "headers", "request_url", "request", "session",
     "logging", "re", "HttpResponse", "urllib", "View", "requests",
     "ProxyRecorder", "logger", "REWRITE_REGEX", "HttpProxy"}

\* Python 2: decoding a byte string as UTF-8 fails on ill-formed input.
decode_utf8_raises(body) == body.isstr /\ ~body.utf8

\* HttpResponse(response_body, status=status, content_type=...).
HttpResponse(content, status, content_type) ==
    [status |-> status, headers |-> {<<"Content-Type", content_type>>}, content |-> content]

\* get_response(method, body, headers); up is what the upstream does with the
\* request should it be sent.  session.send(prepped) is given no timeout: it
\* returns when the upstream has answered or the transport has failed.  The call of line 172 hands create_request the
\* url, the body and the headers, and no method.
get_response(self, req, method, body, headers, up, st) ==
    LET request_url == get_full_url(self, req, self.url)
        enter == <<Ev("get_response", req)>>
        out == create_request(request_url, Unbound, body.data, headers)
        sent == enter \o <<[op |-> "send", path |-> request_url, out |-> out]>>
    IN  IF decode_utf8_raises(body) THEN Raise("UnicodeDecodeError", enter, st)
        ELSE IF ~(create_request_required \subseteq create_request_call_args)
        THEN Raise("TypeError", enter, st)
        ELSE IF ~("s" \in get_response_names) THEN Raise("NameError", enter, st)
        ELSE IF up.silent THEN Block(sent, st)
        ELSE IF ~up.ok THEN Raise("ConnectionError", sent, st)
        ELSE IF ~(\E h \in up.headers : h[1] = "content-type") THEN Raise("KeyError", sent, st)
        ELSE IF headers # {} THEN Raise("ValueError", sent, st)
        ELSE Ok(HttpResponse(up.content, up.status,
                             (CHOOSE h \in up.headers : h[1] = "content-type")[2]),
                sent, st)

NoBody == [isstr |-> FALSE, utf8 |-> TRUE, data |-> << >>]

get(self, req, up, st) == get_response(self, req, "GET", NoBody, {}, up, st)

post(self, req, up, st) ==
    LET headers == IF req.CONTENT_TYPE # << >>
                   THEN {<<"Content-type", req.CONTENT_TYPE>>} ELSE {}
    IN  IF decode_utf8_raises(req.body)
        THEN Raise("UnicodeDecodeError", << >>, st)
        ELSE get_response(self, req, "POST", req.body, headers, up, st)

\* ------------------------------------------------------------ django.views.generic.View
http_method_names == {"get", "post", "put", "patch", "delete", "head", "options", "trace"}

lower(method) ==
    CASE method = "GET" -> "get" [] method = "POST" -> "post" [] method = "PUT" -> "put"
      [] method = "OPTIONS" -> "options" [] OTHER -> method

\* The handlers an HttpProxy instance has: get and post of its own, options
\* of View.
HttpProxy_handlers == {"get", "post", "options"}

AllowHeader == {<<"Allow", "GET, POST, OPTIONS">>}

\* View.http_method_not_allowed: HttpResponseNotAllowed.
http_method_not_allowed(req, st) ==
    Ok([status |-> 405, headers |-> AllowHeader, content |-> << >>],
       <<Ev("http_method_not_allowed", req)>>, st)

\* View.options.
options(req, st) ==
    Ok([status |-> 200, headers |-> AllowHeader \cup {<<"Content-Length", "0">>},
        content |-> << >>],
       <<Ev("options", req)>>, st)

\* View.dispatch, which line 84 calls: the handler named after the request
\* method, http_method_not_allowed when there is none.
View_dispatch(self, req, up, st) ==
    LET name == lower(req.method)
    IN  IF name \in http_method_names /\ name \in HttpProxy_handlers
        THEN CASE name = "get" -> get(self, req, up, st)
               [] name = "post" -> post(self, req, up, st)
               [] OTHER -> options(req, st)
        ELSE http_method_not_allowed(req, st)

\* ------------------------------------------------------------ state
NoResponse == [status |-> 0, headers |-> {}, content |-> << >>]

NoOutcome == [kind |-> "none", exc |-> NoExc, response |-> NoResponse]

\* The upstream of a request the handler has not dispatched yet.
NotContacted ==
    [ok |-> FALSE, silent |-> FALSE, status |-> 0, headers |-> {}, content |-> << >>]

\* The request bodies and content types a client sends: none with GET, PUT
\* and OPTIONS here; with POST a well-formed UTF-8 body with or without a
\* content type, or an ill-formed one.
ClientBodies(method) ==
    IF method = "POST"
    THEN {[body |-> [isstr |-> TRUE, utf8 |-> TRUE, data |-> <<"x">>], ctype |-> c] :
            c \in {<< >>, <<"text/plain">>}}
         \cup {[body |-> [isstr |-> TRUE, utf8 |-> FALSE, data |-> <<"x">>],
                ctype |-> <<"text/plain">>]}
    ELSE {[body |-> [isstr |-> TRUE, utf8 |-> TRUE, data |-> << >>], ctype |-> << >>]}

\* One HttpProxy instance serving every request.
as_view_instance_shared(r) == 1

\* View.as_view: the view function builds a new HttpProxy instance for every
\* request it is called with, so the instance of a request is the request's own.
as_view_instance(r) == r

\* The HttpProxy instance that handles request r.
Self(r) == view[as_view_instance(r)]

\* No request received yet on any of the slots.
InitOn(slots) ==
    /\ pc = [r \in slots |-> "idle"]
    /\ view = [r \in slots |->
                 [base_url |-> base_url, mode |-> None, rewrite |-> FALSE,
                  url |-> << >>, original_request_path |-> << >>]]
    /\ request = [r \in slots |->
                    [method |-> "GET", path |-> << >>, path_info |-> << >>,
                     META_PATH_INFO |-> << >>, QUERY_STRING |-> << >>, GET |-> << >>,
                     CONTENT_TYPE |-> << >>, body |-> NoBody, url |-> << >>,
                     routed |-> << >>,
                     initkwargs |-> [base_url |-> base_url, mode |-> None,
                                     rewrite |-> FALSE]]]
    /\ upstream = [r \in slots |-> NotContacted]
    /\ response = [r \in slots |-> NoResponse]
    /\ outcome = [r \in slots |-> NoOutcome]
    /\ trace = [r \in slots |-> << >>]
    /\ store = {}
    /\ handled = 0

Init == InitOn(Reqs)

\* dispatch with a handler that answers every exception with a 502.
propagate_as_502(exc) ==
    [kind |-> "response", exc |-> NoExc,
     response |-> [status |-> 502, headers |-> {}, content |-> << >>]]

\* An exception that leaves a statement of dispatch leaves dispatch: no
\* statement of it is inside a try.
propagate(exc) == [kind |-> "raise", exc |-> exc, response |-> NoResponse]

\* A bare return: the caller gets no response.
returned_nothing(resp) == NoOutcome

\* return response
returned(resp) == [kind |-> "response", exc |-> NoExc, response |-> resp]

\* is_play with the mode misspelt.
is_play_typo(self) == self.mode = "Play"

is_play(self) == self.mode = "play"

\* is_record that takes every mode but None and play for record.
is_record_unless_play(self) == self.mode \notin {None, "play"}

is_record(self) == self.mode = "record"

\* The rewrite flag read the wrong way round.
wants_rewrite_inverted(self) == ~self.rewrite

\* if self.rewrite (lines 80 and 87)
wants_rewrite(self) == self.rewrite

\* The router calls the view as_view built: a new instance with the configured
\* base_url, mode and rewrite, self.request = request, then
\* dispatch(request, url), whose first two statements store url and
\* request.path on the instance.  Of the request, url keeps the url the router
\* passed, routed the path it was routed by, initkwargs what as_view was
\* given.
Route(r, inp, keys) ==
    /\ request' = [request EXCEPT ![r] =
          [method |-> inp.method, path |-> inp.mount \o inp.url,
           path_info |-> inp.mount \o inp.url, META_PATH_INFO |-> inp.mount \o inp.url,
           QUERY_STRING |-> inp.query_string,
           GET |-> QueryDict(inp.query_string, keys),
           CONTENT_TYPE |-> inp.cb.ctype, body |-> inp.cb.body, url |-> inp.url,
           routed |-> inp.mount \o inp.url,
           initkwargs |-> [base_url |-> inp.base_url, mode |-> inp.mode,
                           rewrite |-> inp.rewrite]]]
    /\ view' = [view EXCEPT ![as_view_instance(r)] =
          [base_url |-> inp.base_url, mode |-> inp.mode, rewrite |-> inp.rewrite,
           url |-> inp.url, original_request_path |-> inp.mount \o inp.url]]
    /\ pc' = [pc EXCEPT ![r] = "entered"]
    /\ response' = [response EXCEPT ![r] = NoResponse]
    /\ outcome' = [outcome EXCEPT ![r] = NoOutcome]
    /\ trace' = [trace EXCEPT ![r] = << >>]
    /\ upstream' = [upstream EXCEPT ![r] = NotContacted]
    /\ handled' = handled + 1
    /\ UNCHANGED store

Receive(r) ==
    /\ pc[r] \in {"idle", "done"}
    /\ handled < MaxHandled
    /\ \E method \in Methods, mount \in Mounts, url \in TargetUrls, q \in Queries,
          mode \in Modes, rw \in BOOLEAN :
         \E cb \in ClientBodies(method), keys \in KeyOrders(q) :
            Route(r, [method |-> method, mount |-> mount, url |-> url,
                      query_string |-> q, mode |-> mode, rewrite |-> rw, cb |-> cb,
                      base_url |-> base_url], keys)

\* line 76
Normalize(r) ==
    /\ pc[r] = "entered"
    /\ LET n == normalize_request(Self(r), request[r])
       IN  /\ view' = [view EXCEPT ![as_view_instance(r)] = n.self]
           /\ request' = [request EXCEPT ![r] = n.request]
           /\ trace' = [trace EXCEPT ![r] = @ \o <<Ev("normalize", n.request)>>]
    /\ pc' = [pc EXCEPT ![r] = "normalized"]
    /\ UNCHANGED <<upstream, response, outcome, store, handled>>

\* lines 78-82: the play branch, to its return.
dispatch_play(self, req, st) ==
    LET played == play(self, req, st)
    IN  IF Raised(played) THEN played
        ELSE IF wants_rewrite(self)
        THEN LET rewritten == rewrite_response(self, req, played.value, played.store)
             IN  [rewritten EXCEPT !.events = played.events \o @]
        ELSE played

\* An action's end: the call res ended the request, by raising or by the
\* return of its value; or it never returned, and the request stays where it
\* is for good.
Finish(r, res) ==
    IF res.raised = Blocked
    THEN /\ trace' = [trace EXCEPT ![r] = @ \o res.events]
         /\ pc' = [pc EXCEPT ![r] = "blocked"]
         /\ UNCHANGED <<outcome, response, store>>
    ELSE /\ outcome' = [outcome EXCEPT ![r] =
               IF Raised(res) THEN propagate(res.raised) ELSE returned(res.value)]
         /\ response' = [response EXCEPT ![r] = IF Raised(res) THEN @ ELSE res.value]
         /\ trace' = [trace EXCEPT ![r] =
               @ \o res.events
                 \o <<Ev(IF Raised(res) THEN "raise" ELSE "return", request[r])>>]
         /\ store' = res.store
         /\ pc' = [pc EXCEPT ![r] = "done"]

\* lines 77-82
PlayBranch(r) ==
    /\ pc[r] = "normalized"
    /\ is_play(Self(r))
    /\ Finish(r, dispatch_play(Self(r), request[r], store))
    /\ UNCHANGED <<view, request, upstream, handled>>

\* A statement of dispatch that is not its last: the call res either raised,
\* which ends the request, or returned, and dispatch goes on at `next` with
\* resp as its local `response`.
Step(r, res, next, resp) ==
    IF Raised(res)
    THEN Finish(r, res)
    ELSE /\ trace' = [trace EXCEPT ![r] = @ \o res.events]
         /\ store' = res.store
         /\ response' = [response EXCEPT ![r] = resp]
         /\ pc' = [pc EXCEPT ![r] = next]
         /\ UNCHANGED outcome

\* line 84.  upstream[r] becomes what the upstream does with this request
\* should the handler send it.
SuperDispatch(r) ==
    /\ pc[r] = "normalized"
    /\ ~is_play(Self(r))
    /\ \E up \in UpstreamReplies :
         /\ upstream' = [upstream EXCEPT ![r] = up]
         /\ LET res == View_dispatch(Self(r), request[r], up, store)
            IN  Step(r, res, "dispatched", res.value)
    /\ UNCHANGED <<view, request, handled>>

\* lines 85-86
RecordStep(r) ==
    /\ pc[r] = "dispatched"
    /\ IF is_record(Self(r))
       THEN Step(r, record(Self(r), request[r], response[r], store), "recorded",
                 response[r])
       ELSE Step(r, Ok(None, << >>, store), "recorded", response[r])
    /\ UNCHANGED <<view, request, upstream, handled>>

\* lines 87-88
RewriteStep(r) ==
    /\ pc[r] = "recorded"
    /\ LET res == IF wants_rewrite(Self(r))
                  THEN rewrite_response(Self(r), request[r], response[r], store)
                  ELSE Ok(response[r], << >>, store)
       IN  Step(r, res, "rewritten", res.value)
    /\ UNCHANGED <<view, request, upstream, handled>>

\* line 89
Return(r) ==
    /\ pc[r] = "rewritten"
    /\ Finish(r, Ok(response[r], << >>, store))
    /\ UNCHANGED <<view, request, upstream, handled>>

Next ==
    \/ \E r \in Reqs : Receive(r)
    \/ \E r \in Reqs : Normalize(r)
    \/ \E r \in Reqs : PlayBranch(r)
    \/ \E r \in Reqs : SuperDispatch(r)
    \/ \E r \in Reqs : RecordStep(r)
    \/ \E r \in Reqs : RewriteStep(r)
    \/ \E r \in Reqs : Return(r)

Spec == Init /\ [][Next]_vars

\* ------------------------------------------------------------ requests side by side
\* Two requests in flight at once, each on its own slot, the proxy configured
\* well or badly; fewer kinds of request than Receive draws.
ConcReqs == {1, 2}

ConcInputs ==
    {[method |-> method, mount |-> <<"/", "p", "/">>, url |-> url,
      query_string |-> << >>, mode |-> mode, rewrite |-> TRUE,
      cb |-> [body |-> [isstr |-> TRUE, utf8 |-> TRUE, data |-> << >>], ctype |-> << >>],
      base_url |-> base] :
        method \in {"GET", "PUT"}, url \in {<<"a">>, <<"/", "b">>}, mode \in Modes,
        base \in {base_url, base_url_no_host}}

ReceiveConc(r) ==
    /\ pc[r] \in {"idle", "done"}
    /\ handled < MaxHandled
    /\ \E inp \in ConcInputs : Route(r, inp, << >>)

InitConc == InitOn(ConcReqs)

NextConc ==
    \/ \E r \in ConcReqs : ReceiveConc(r)
    \/ \E r \in ConcReqs : Normalize(r)
    \/ \E r \in ConcReqs : PlayBranch(r)
    \/ \E r \in ConcReqs : SuperDispatch(r)
    \/ \E r \in ConcReqs : RecordStep(r)
    \/ \E r \in ConcReqs : RewriteStep(r)
    \/ \E r \in ConcReqs : Return(r)

SpecConc == InitConc /\ [][NextConc]_vars

\* ------------------------------------------------------------ the functions alone
\* The pure functions of the view, applied to inputs drawn from bounded sets:
\* the pipeline itself hands rewrite_response empty bodies only.
MaxBodyLen == 4

MaxPathLen == 2

MaxQueryLen == 3

\* What a response body is made of: attributes the rewriter looks for and one
\* it does not, a quote, a slash, other text.
BodyTokens == {"src=", "href=", "SRC=", "\"", "/", "a"}

ImgBody == <<"<img ", "src=", "\"", "/", "a.png", "\"", ">">>

ProtocolRelativeBody == <<"<a ", "href=", "\"", "/", "/", "other.com/x", "\"", ">">>

FormBody == <<"<form ", "action=", "'", "/", "f", "'", ">", "src=", "\"", "/">>

FnBodies == SeqsUpTo(BodyTokens, MaxBodyLen) \cup {ImgBody, ProtocolRelativeBody, FormBody}

\* What precedes the target path in request.path: nothing, a plain prefix,
\* a prefix with a backslash escape in it.
FnPrefixes == {<< >>, <<"/", "proxy">>, <<"/", "p", Backref1>>}

\* The text a URL pattern matches before the group `url`.
FnMounts == {<< >>, <<"/", "p">>, <<"/", "p", "/">>, <<"/", "a">>, <<"/", "a", "/">>}

FnUrls == SeqsUpTo({"/", "a"}, MaxPathLen)

FnQueryStrings == SeqsUpTo({"a", "b"} \X {"1", "%20"}, MaxQueryLen)

\* focus names the function an input is for: the rewriter on a body, the
\* normalizer and the mount prefix on a routed path, get_full_url on a
\* query string.
FnInputs ==
    {[focus |-> "fn_body", path |-> prefix \o <<"/", "a">>, url |-> <<"/", "a">>,
      norm |-> TRUE, query_string |-> << >>, content |-> c] :
        prefix \in FnPrefixes, c \in FnBodies}
    \cup {[focus |-> "fn_path", path |-> mount \o url, url |-> url, norm |-> FALSE,
            query_string |-> << >>, content |-> <<"src=", "\"", "/", "a">>] :
              mount \in FnMounts, url \in FnUrls}
    \cup {[focus |-> "fn_query", path |-> <<"/", "index.html">>,
            url |-> <<"/", "index.html">>, norm |-> TRUE, query_string |-> qs,
            content |-> << >>] :
              qs \in FnQueryStrings}

\* A request routed as inp.path with the group url = inp.url, in the hands of
\* dispatch: before line 76, or after it when inp.norm.
InitFn ==
    \E inp \in FnInputs : \E keys \in KeyOrders(inp.query_string) :
        /\ pc = [r \in Reqs |-> inp.focus]
        /\ view = [r \in Reqs |->
                     [base_url |-> base_url, mode |-> None, rewrite |-> TRUE,
                      url |-> inp.url, original_request_path |-> inp.path]]
        /\ request = [r \in Reqs |->
                        LET path == IF inp.norm THEN inp.url ELSE inp.path
                        IN  [method |-> "GET", path |-> path, path_info |-> path,
                             META_PATH_INFO |-> path,
                             QUERY_STRING |-> inp.query_string,
                             GET |-> QueryDict(inp.query_string, keys),
                             CONTENT_TYPE |-> << >>,
                             body |-> [isstr |-> TRUE, utf8 |-> TRUE, data |-> << >>],
                             url |-> inp.url, routed |-> inp.path,
                             initkwargs |-> [base_url |-> base_url, mode |-> None,
                                             rewrite |-> TRUE]]]
        /\ upstream = [r \in Reqs |-> NotContacted]
        /\ response = [r \in Reqs |->
                         [status |-> 200, headers |-> {<<"Content-Type", "text/html">>},
                          content |-> inp.content]]
        /\ outcome = [r \in Reqs |-> NoOutcome]
        /\ trace = [r \in Reqs |-> << >>]
        /\ store = {}
        /\ handled = 1

\* normalize_request, a first and a second time.
FnNormalize(r) ==
    /\ pc[r] \in {"fn_path", "fn_norm1"}
    /\ LET n == normalize_request(Self(r), request[r])
       IN  /\ view' = [view EXCEPT ![as_view_instance(r)] = n.self]
           /\ request' = [request EXCEPT ![r] = n.request]
           /\ trace' = [trace EXCEPT ![r] = @ \o <<Ev("normalize", n.request)>>]
    /\ pc' = [pc EXCEPT ![r] = IF pc[r] = "fn_path" THEN "fn_norm1" ELSE "fn_norm2"]
    /\ UNCHANGED <<upstream, response, outcome, store, handled>>

\* get_full_url(self.url)
FnFullUrl(r) ==
    /\ pc[r] = "fn_query"
    /\ trace' = [trace EXCEPT ![r] =
          @ \o <<[op |-> "get_full_url",
                  path |-> get_full_url(Self(r), request[r], Self(r).url)]>>]
    /\ pc' = [pc EXCEPT ![r] = "fn_url"]
    /\ UNCHANGED <<view, request, upstream, response, outcome, store, handled>>

\* rewrite_response(request, response); response[r] keeps the body it was given.
FnRewrite(r) ==
    /\ pc[r] \in {"fn_body", "fn_norm2"}
    /\ LET res == rewrite_response(Self(r), request[r], response[r], store)
       IN  /\ outcome' = [outcome EXCEPT ![r] = returned(res.value)]
           /\ trace' = [trace EXCEPT ![r] = @ \o res.events]
    /\ pc' = [pc EXCEPT ![r] = "fn_rewritten"]
    /\ UNCHANGED <<view, request, upstream, response, store, handled>>

NextFn ==
    \/ \E r \in Reqs : FnNormalize(r)
    \/ \E r \in Reqs : FnFullUrl(r)
    \/ \E r \in Reqs : FnRewrite(r)

SpecFn == InitFn /\ [][NextFn]_vars

\* ------------------------------------------------------------ reading a trace
Ops(r) == {trace[r][i].op : i \in 1..Len(trace[r])}

Count(r, op) == Cardinality({i \in 1..Len(trace[r]) : trace[r][i].op = op})

Done(r) == pc[r] = "done"

\* What only the forward path does: the handlers super().dispatch calls and
\* the outbound send.
ForwardOps == {"get_response", "send", "options", "http_method_not_allowed"}

\* What touches the Recorder.
RecorderOps == {"get_recorder", "playback", "recorder_write"}

\* The events that yield the response of a request.
ProducingOps == {"send", "playback", "options", "http_method_not_allowed"}

\* The target path with its leading slash.
NormalPath(url) == IF startswith(url, "/") THEN url ELSE <<"/">> \o url

\* The upstream answered, with a content type.
Healthy(up) == up.ok /\ \E h \in up.headers : h[1] = "content-type"

\* ------------------------------------------------------------ C1
\* C1: in play mode no request, whatever its method, path and rewrite flag,
\* enters the forward path: nothing is sent upstream and no handler of
\* super().dispatch runs, and a response, if one is returned, was played back.
C1_PlayNeverForwards ==
    \A r \in Reqs :
        view[r].mode = "play" =>
            /\ Ops(r) \cap ForwardOps = {}
            /\ (outcome[r].kind = "response" => "playback" \in Ops(r))

C1_Witness ==
    \E r \in Reqs : Done(r) /\ view[r].mode = "play" /\ "get_recorder" \in Ops(r)

\* ------------------------------------------------------------ C2
\* C2: record then play.  A record-mode GET or POST that a healthy upstream
\* answers with R ends with R returned and stored under the key of the
\* normalized request; a play-mode request whose key is stored, rewrite
\* disabled, returns the stored response and sends nothing upstream.
C2_RoundTrip ==
    \A r \in Reqs :
        /\ (Done(r) /\ view[r].mode = "record" /\ request[r].method \in {"GET", "POST"}
              /\ request[r].body.utf8 /\ Healthy(upstream[r]))
           => /\ outcome[r].kind = "response"
              /\ \E p \in store :
                    /\ p.key = <<request[r].method, NormalPath(request[r].url), request[r].GET>>
                    /\ p.response.status = upstream[r].status
                    /\ p.response.content = upstream[r].content
        /\ (Done(r) /\ view[r].mode = "play" /\ ~view[r].rewrite
              /\ \E p \in store : p.key = RecorderKey(request[r]))
           => /\ outcome[r].kind = "response"
              /\ \E p \in store :
                    p.key = RecorderKey(request[r]) /\ p.response = outcome[r].response
              /\ "send" \notin Ops(r)

\* ------------------------------------------------------------ C3
\* C3: a play-mode request whose key has no recorded pair ends with
\* RequestNotRecorded (an Http404), sends nothing upstream and is not rewritten.
C3_PlayMiss ==
    \A r \in Reqs :
        (Done(r) /\ view[r].mode = "play"
           /\ ~\E p \in store : p.key = RecorderKey(request[r]))
        => /\ outcome[r] = propagate("RequestNotRecorded")
           /\ Ops(r) \cap (ForwardOps \cup {"rewrite"}) = {}

\* ------------------------------------------------------------ C4
\* C4 as claimed: every request that has been handled got a response.
C4_ExactlyOneResponse ==
    \A r \in Reqs : Done(r) => outcome[r].kind = "response" /\ Count(r, "return") = 1

\* C4 as amended: the handling of a request ends in exactly one outcome, a
\* response returned to the caller or an exception that leaves dispatch with
\* no response; never both, never two responses, and none before it ends.
C4_OneOutcome ==
    \A r \in Reqs :
        /\ Count(r, "return") + Count(r, "raise") = (IF Done(r) THEN 1 ELSE 0)
        /\ Count(r, "return") = 1
             <=> (outcome[r].kind = "response" /\ outcome[r].response # NoResponse)
        /\ Count(r, "raise") = 1
             <=> (outcome[r].kind = "raise" /\ outcome[r].response = NoResponse)

C4_Witness ==
    \E r \in Reqs :
        Done(r) /\ outcome[r].kind = "response" /\ "http_method_not_allowed" \in Ops(r)

\* ------------------------------------------------------------ C5
\* C5 as claimed: no exception leaves dispatch; a failed request ends with an
\* error response.
C5_ErrorsConverted ==
    \A r \in Reqs : "raise" \notin Ops(r) /\ outcome[r].kind # "raise"

\* C5 as amended: an exception raised while a request is handled leaves
\* dispatch as that exception; dispatch returns no response in its place, and
\* no response it returns is a 502 or a 504.
C5_ErrorsPropagate ==
    \A r \in Reqs :
        /\ "raise" \in Ops(r) =>
              /\ outcome[r].kind = "raise"
              /\ outcome[r].exc \in {"TypeError", "UnicodeDecodeError"}
              /\ "return" \notin Ops(r)
        /\ outcome[r].response.status \notin {502, 504}

C5_Witness ==
    \E r \in Reqs :
        /\ Done(r) /\ view[r].mode = None /\ request[r].method = "GET"
        /\ "get_response" \in Ops(r) /\ outcome[r] = propagate("TypeError")

\* ------------------------------------------------------------ C6
\* The Recorder was called for the response of a record-mode request and the
\* call raised.
RecordFailed(r) ==
    /\ view[r].mode = "record"
    /\ Ops(r) \cap ProducingOps # {}
    /\ "get_recorder" \in Ops(r)
    /\ "recorder_write" \notin Ops(r)

C8_NormalizeFirst ==
    \A r \in Reqs :
        /\ trace[r] # << >> => trace[r][1].op = "normalize"
        /\ Count(r, "normalize") <= 1
        /\ \A i \in 1..Len(trace[r]) :
              /\ trace[r][i].op # "send" =>
                    /\ trace[r][i].path = NormalPath(request[r].url)
                    /\ trace[r][i].path # view[r].original_request_path
              /\ trace[r][i].op = "rewrite" =>
                    \A j \in 1..Len(trace[r]) :
                        trace[r][j].op \in (ForwardOps \cup RecorderOps) => j < i

C8_Witness ==
    \E r \in Reqs :
        /\ Done(r) /\ ~startswith(request[r].url, "/")
        /\ "rewrite" \in Ops(r) /\ Ops(r) \cap ForwardOps # {}

\* ------------------------------------------------------------ C9
\* C9: a record-mode request is sent upstream, and recorded once after a
\* dispatch that succeeded; a request in mode None never touches the Recorder;
\* playback happens in play mode only.
C9_RecorderByMode ==
    \A r \in Reqs :
        /\ (Done(r) /\ view[r].mode = "record") =>
              /\ Count(r, "send") = 1
              /\ (Healthy(upstream[r]) => Count(r, "recorder_write") = 1)
        /\ view[r].mode = None => Ops(r) \cap RecorderOps = {}
        /\ "playback" \in Ops(r) => view[r].mode = "play"

\* ------------------------------------------------------------ C10
\* C10: in mode None with rewrite disabled a GET or POST that the upstream
\* answers returns the upstream's status, headers and body, and nothing else.
C10_ForwardFidelity ==
    \A r \in Reqs :
        (Done(r) /\ view[r].mode = None /\ ~view[r].rewrite
           /\ request[r].method \in {"GET", "POST"} /\ request[r].body.utf8
           /\ upstream[r].ok)
        => /\ outcome[r].kind = "response"
           /\ outcome[r].response.status = upstream[r].status
           /\ outcome[r].response.headers = upstream[r].headers
           /\ outcome[r].response.content = upstream[r].content

\* ------------------------------------------------------------ C11
\* C11: a GET or POST that is forwarded is sent upstream once, with the
\* method of the inbound request; a GET with no body, a POST with the inbound
\* body and, when the inbound request has a content type, that content type
\* as its Content-type header.
C11_MethodForwarding ==
    \A r \in Reqs :
        (Done(r) /\ ~is_play(view[r]) /\ request[r].method \in {"GET", "POST"}
           /\ request[r].body.utf8)
        => /\ Count(r, "send") = 1
           /\ \A i \in 1..Len(trace[r]) :
                 trace[r][i].op = "send" =>
                     /\ trace[r][i].out.method = request[r].method
                     /\ trace[r][i].out.body = request[r].body.data
                     /\ (request[r].CONTENT_TYPE # << >> =>
                            <<"Content-type", request[r].CONTENT_TYPE>>
                                \in trace[r][i].out.headers)

\* ------------------------------------------------------------ C12
\* The pattern of the claim at index i of body c: src=, href= or action=, a
\* double or single quote, a slash, and no second slash right after it.
AttrMatch(c, i) ==
    /\ i + 2 <= Len(c)
    /\ c[i] \in {"src=", "href=", "action="}
    /\ c[i + 1] \in {"\"", "'"}
    /\ c[i + 2] = "/"
    /\ ~(i + 3 <= Len(c) /\ c[i + 3] = "/")

\* out is c with prefix put between the quote and the slash of every
\* occurrence of the pattern, and nothing else added, dropped or moved.
PrefixInserted(c, prefix, out) ==
    LET M == {i \in 1..Len(c) : AttrMatch(c, i)}
        shift(k) == Len(prefix) * Cardinality({i \in M : i + 2 <= k})
    IN  /\ Len(out) = Len(c) + Len(prefix) * Cardinality(M)
        /\ \A k \in 1..Len(c) : out[k + shift(k)] = c[k]
        /\ \A i \in M :
              SubSeq(out, i + 2 + shift(i + 1), i + 1 + shift(i + 1) + Len(prefix)) = prefix

\* rewrite_response has been applied for request r, whose original path ends
\* with its normalized path.
Rewritten(r) ==
    /\ pc[r] = "fn_rewritten"
    /\ Len(request[r].path) <= Len(view[r].original_request_path)
    /\ OccursAt(view[r].original_request_path, request[r].path,
                Len(view[r].original_request_path) - Len(request[r].path) + 1)

\* What precedes the normalized path in the original path.
MountPrefix(r) ==
    SubSeq(view[r].original_request_path, 1,
           Len(view[r].original_request_path) - Len(request[r].path))

HasBackslash(prefix) == \E i \in 1..Len(prefix) : prefix[i] = Backref1

ImgBodyRewritten == <<"<img ", "src=", "\"", "/", "proxy", "/", "a.png", "\"", ">">>

\* The two bodies the claim names come out as it says.
RewriteExamples(r) ==
    /\ (response[r].content = ImgBody /\ MountPrefix(r) = <<"/", "proxy">>)
          => outcome[r].response.content = ImgBodyRewritten
    /\ response[r].content = ProtocolRelativeBody
          => outcome[r].response.content = ProtocolRelativeBody

\* C12 as claimed: for every body and every mount prefix the rewritten body
\* is the body with the prefix put in front of the slash of every src=, href=
\* or action= attribute whose quoted value starts with a single slash, and
\* nothing else changed.
C12_RewriteEveryPrefix ==
    \A r \in Reqs :
        Rewritten(r) =>
            /\ PrefixInserted(response[r].content, MountPrefix(r),
                              outcome[r].response.content)
            /\ RewriteExamples(r)

\* C12 as amended: the same for every body and every mount prefix that has
\* no backslash in it; status and headers are left as they were.
C12_RewriteCorrect ==
    \A r \in Reqs :
        (Rewritten(r) /\ ~HasBackslash(MountPrefix(r))) =>
            /\ PrefixInserted(response[r].content, MountPrefix(r),
                              outcome[r].response.content)
            /\ RewriteExamples(r)
            /\ outcome[r].response.status = response[r].status
            /\ outcome[r].response.headers = response[r].headers

C12_Witness ==
    \E r \in Reqs :
        /\ Rewritten(r) /\ MountPrefix(r) = <<"/", "proxy">>
        /\ response[r].content = FormBody
        /\ Len(outcome[r].response.content) = Len(FormBody) + 4

\* ------------------------------------------------------------ C13
\* C13: the normalizer puts a slash in front of a target path that has none
\* and leaves a target path that starts with a slash as it is; applied to its
\* own result it changes nothing.
C13_Normalization ==
    \A r \in Reqs :
        pc[r] \in {"fn_norm1", "fn_norm2"} =>
            /\ (~startswith(request[r].url, "/")
                  => request[r].path = <<"/">> \o request[r].url)
            /\ (startswith(request[r].url, "/") => request[r].path = request[r].url)
            /\ view[r].url = request[r].path
            /\ pc[r] = "fn_norm2" =>
                  /\ Count(r, "normalize") = 2
                  /\ trace[r][2].path = trace[r][1].path

C13_Witness ==
    \E r \in Reqs :
        /\ pc[r] = "fn_norm2" /\ request[r].url = <<"a", "/">>
        /\ request[r].path = <<"/", "a", "/">>

\* ------------------------------------------------------------ C14
\* get_full_url has been applied for request r.
Composed(r) == pc[r] = "fn_url"

\* The URL it returned.
FullUrl(r) == trace[r][Len(trace[r])].path

\* The query string as received: key=value of every pair in order, joined by &.
ReceivedQuery(qs) == join_amp([i \in 1..Len(qs) |-> <<qs[i][1], "=", qs[i][2]>>])

\* tail is "?" and then key=value&...: every received pair of qs once, its
\* value decoded and encoded again, the pairs of one key together and in the
\* order they were received.
Reserialized(qs, tail) ==
    LET n == Len(qs)
        key(j) == tail[4 * j - 2]
        val(j) == tail[4 * j]
    IN  /\ n > 0
        /\ Len(tail) = 4 * n
        /\ tail[1] = "?"
        /\ \A j \in 1..n : tail[4 * j - 1] = "=" /\ (j > 1 => tail[4 * j - 3] = "&")
        /\ \E f \in [1..n -> 1..n] :
              /\ \A j, k \in 1..n : f[j] = f[k] => j = k
              /\ \A j \in 1..n :
                    /\ key(j) = qs[f[j]][1]
                    /\ val(j) = quote_plus(unquote_plus(qs[f[j]][2]))
              /\ \A j, k \in 1..n : (j < k /\ key(j) = key(k)) =>
                    /\ f[j] < f[k]
                    /\ \A m \in j..k : key(m) = key(j)

\* C14 as claimed: the URL is the base URL, the target path and, when there
\* are query parameters, "?" and the parameters in the order and encoding
\* they were received in; no "?" when there are none.
C14_QueryPreserved ==
    \A r \in Reqs :
        Composed(r) =>
            FullUrl(r) = base_url.text \o view[r].url
                \o (IF request[r].QUERY_STRING # << >>
                    THEN <<"?">> \o ReceivedQuery(request[r].QUERY_STRING) ELSE << >>)

\* C14 as amended: the URL is the base URL, the target path and, exactly
\* when there are query parameters, "?" and the parameters serialized again
\* from the parsed query: grouped by key, each value re-encoded.
C14_UrlComposition ==
    \A r \in Reqs :
        Composed(r) =>
            LET head == base_url.text \o view[r].url
                tail == SubSeq(FullUrl(r), Len(head) + 1, Len(FullUrl(r)))
            IN  /\ SubSeq(FullUrl(r), 1, Len(head)) = head
                /\ request[r].QUERY_STRING = << >> => tail = << >>
                /\ request[r].QUERY_STRING # << >>
                      => Reserialized(request[r].QUERY_STRING, tail)
                /\ (request[r].QUERY_STRING = << >> /\ view[r].url = <<"/", "index.html">>)
                      => FullUrl(r) = <<"http://origin.test", "/", "index.html">>

C14_Witness ==
    \E r \in Reqs :
        /\ Composed(r)
        /\ request[r].QUERY_STRING = << <<"a", "1">>, <<"b", "%20">>, <<"a", "%20">> >>
        /\ FullUrl(r) = <<"http://origin.test", "/", "index.html", "?",
                          "a", "=", "1", "&", "a", "=", "+", "&", "b", "=", "+">>

\* ------------------------------------------------------------ C15
\* C15: with two requests in flight on the same proxy, what the handler keeps
\* and uses for a request comes from that request alone: the instance that
\* handles it holds its own url and original path and the configuration
\* as_view was given, whatever the other request is and wherever it has got
\* to; every stage works on the request's own normalized path, the URL for
\* the upstream is built from it, and the mount prefix from its own paths.
C15_RequestIsolation ==
    \A r \in ConcReqs :
        pc[r] # "idle" =>
            /\ Self(r).original_request_path = request[r].routed
            /\ Self(r).url = (IF pc[r] = "entered" THEN request[r].url
                              ELSE NormalPath(request[r].url))
            /\ Self(r).base_url = request[r].initkwargs.base_url
            /\ Self(r).mode = request[r].initkwargs.mode
            /\ Self(r).rewrite = request[r].initkwargs.rewrite
            /\ \A i \in 1..Len(trace[r]) :
                  /\ trace[r][i].op # "send" =>
                        trace[r][i].path = NormalPath(request[r].url)
                  /\ trace[r][i].op = "send" =>
                        trace[r][i].path = request[r].initkwargs.base_url.text
                                              \o NormalPath(request[r].url)
                  /\ trace[r][i].op = "rewrite" =>
                        trace[r][i].root \o NormalPath(request[r].url) = request[r].routed

\* Both requests are past normalization and not yet ended, with different
\* targets and different modes.
C15_Witness ==
    /\ pc[1] \in {"normalized", "dispatched", "recorded", "rewritten"}
    /\ pc[2] \in {"normalized", "dispatched", "recorded", "rewritten"}
    /\ request[1].url # request[2].url
    /\ Self(1).mode # Self(2).mode
    /\ "rewrite" \in Ops(1)

\* ------------------------------------------------------------ C16
\* A step of the handling of request r.
HandlerStep(r) ==
    \/ Normalize(r) \/ PlayBranch(r) \/ SuperDispatch(r)
    \/ RecordStep(r) \/ RewriteStep(r) \/ Return(r)

TimeoutErrors == {"Timeout", "ConnectTimeout", "ReadTimeout", "UpstreamError"}

InvalidConfig(self) ==
    \/ self.base_url.hostname = "None"
    \/ self.mode \notin {None, "record", "play"}

\* C17 as claimed: a proxy with an invalid configuration handles no request.
C17_ConfigRejected ==
    \A r \in ConcReqs :
        InvalidConfig(Self(r)) => trace[r] = << >> /\ outcome[r].kind # "response"

\* C17 as amended: nothing checks the configuration.  A request to a proxy
\* with an invalid configuration is handled like any other: normalized
\* first, forwarded like a request in mode None, with no use of the
\* Recorder, when the mode is not a documented one; its URL built from the
\* base URL as it is; a method without a handler answered with 405 (in play
\* mode the Recorder is asked instead); and no request ends with a
\* ConfigurationError.
C17_ConfigNotValidated ==
    \A r \in ConcReqs :
        /\ outcome[r].exc # "ConfigurationError"
        /\ (InvalidConfig(Self(r)) /\ Done(r)) =>
              /\ trace[r][1].op = "normalize"
              /\ (request[r].method = "PUT" /\ Self(r).mode # "play")
                    => "http_method_not_allowed" \in Ops(r)
              /\ Self(r).mode = "play" => "get_recorder" \in Ops(r)
              /\ (request[r].method = "PUT" /\ Self(r).mode \notin {"play", "record"})
                    => outcome[r].kind = "response" /\ outcome[r].response.status = 405
        /\ Self(r).mode \notin {None, "record", "play"} =>
              /\ Ops(r) \cap RecorderOps = {}
              /\ Done(r) => Ops(r) \cap ForwardOps # {}

C17_Witness ==
    \E r \in ConcReqs :
        /\ Done(r) /\ Self(r).mode = "replay" /\ Self(r).base_url = base_url_no_host
        /\ outcome[r].kind = "response" /\ outcome[r].response.status = 405

\* ------------------------------------------------------------ C18
\* C18: the step that normalizes a request sets path, path_info and
\* META['PATH_INFO'] to the same normalized path and leaves the method, the
\* content type, the body and the query of the request as they were.
C18_NormalizerFrame ==
    [][\A r \in Reqs :
          (pc[r] = "entered" /\ pc'[r] = "normalized") =>
              /\ request'[r].path = NormalPath(request[r].url)
              /\ request'[r].path_info = request'[r].path
              /\ request'[r].META_PATH_INFO = request'[r].path
              /\ request'[r].method = request[r].method
              /\ request'[r].CONTENT_TYPE = request[r].CONTENT_TYPE
              /\ request'[r].body = request[r].body
              /\ request'[r].QUERY_STRING = request[r].QUERY_STRING
              /\ request'[r].GET = request[r].GET]_vars

C18_Witness ==
    \E r \in Reqs :
        /\ pc[r] = "normalized" /\ request[r].method = "POST"
        /\ request[r].CONTENT_TYPE # << >> /\ request[r].GET # << >>
        /\ request[r].routed = <<"/", "p", "/", "a">>
        /\ request[r].path = <<"/", "a">>
        /\ request[r].path_info = <<"/", "a">>
        /\ request[r].META_PATH_INFO = <<"/", "a">>

\* ------------------------------------------------------------ C19
\* The prefix rewrite_response used for request r.
UsedRoot(r) == trace[r][Len(trace[r])].root

\* C19: whenever the original path of a request is some M followed by its
\* normalized path N, the prefix rewrite_response uses is M, also when N
\* occurs in the original path more than once and when the target came
\* without its leading slash; and M is what the rewritten body carries.
C19_MountPrefix ==
    \A r \in Reqs :
        pc[r] = "fn_rewritten" =>
            \A k \in 0..Len(view[r].original_request_path) :
                LET M == SubSeq(view[r].original_request_path, 1, k)
                IN  M \o request[r].path = view[r].original_request_path =>
                        /\ UsedRoot(r) = M
                        /\ (response[r].content = <<"src=", "\"", "/", "a">>
                               /\ ~HasBackslash(M))
                              => outcome[r].response.content
                                     = <<"src=", "\"">> \o M \o <<"/", "a">>

C19_Witness ==
    \E r \in Reqs :
        /\ pc[r] = "fn_rewritten" /\ request[r].url = <<"a">>
        /\ request[r].path = <<"/", "a">>
        /\ view[r].original_request_path = <<"/", "a", "/", "a">>
        /\ UsedRoot(r) = <<"/", "a">>
        /\ Count(r, "normalize") = 2

\* ------------------------------------------------------------ C20
\* The body b as rewrite_response leaves it for request r.
RewrittenOnce(r, b) == regex_sub(b, repl_template(proxy_root(view[r], request[r])), 1)

\* C20: a record-mode GET or POST with rewrite enabled that a healthy
\* upstream answers hands the Recorder the upstream's body as it came, before
\* the rewriter runs, and returns that body rewritten once; a play-mode
\* request with rewrite enabled whose key is stored returns the stored body
\* rewritten once.
C20_RecordBeforeRewrite ==
    \A r \in Reqs :
        /\ (Done(r) /\ view[r].mode = "record" /\ view[r].rewrite
              /\ request[r].method \in {"GET", "POST"} /\ request[r].body.utf8
              /\ Healthy(upstream[r]))
           => /\ \E p \in store :
                    /\ p.key = RecorderKey(request[r])
                    /\ p.response.content = upstream[r].content
              /\ \E i, j \in 1..Len(trace[r]) :
                    i < j /\ trace[r][i].op = "recorder_write" /\ trace[r][j].op = "rewrite"
              /\ outcome[r].kind = "response"
              /\ outcome[r].response.content = RewrittenOnce(r, upstream[r].content)
        /\ (Done(r) /\ view[r].mode = "play" /\ view[r].rewrite
              /\ \E p \in store : p.key = RecorderKey(request[r]))
           => /\ outcome[r].kind = "response"
              /\ \E p \in store :
                    /\ p.key = RecorderKey(request[r])
                    /\ outcome[r].response.content = RewrittenOnce(r, p.response.content)

====
